---- MODULE Spec2Model ----
(***************************************************************************)
(* Contact deduplication and pipeline conversion engine of ignitebd-backend*)
(* (routes/Contact/ContactRoutes.js, services/PipelineTriggerService.js,   *)
(* config/pipelineConfig.js).                                              *)
(*                                                                         *)
(* The store (Prisma over PostgreSQL) is three tables: contacts, companies *)
(* and pipelines.  Every HTTP request is a process that runs its handler   *)
(* one store call (one `await prisma...`) at a time; the local computation *)
(* between two store calls is folded into the store call that follows it.  *)
(* The tenant check (companyHQ.findUnique) reads a table no handler of the *)
(* model writes, so it is folded into the step that starts the request.    *)
(***************************************************************************)
EXTENDS Naturals, Sequences, FiniteSets

\* ---------------------------------------------------------------- bounds
NumProcs == 2
MaxContacts == 3
MaxCompanies == 2

Procs == 1..NumProcs

\* ------------------------------------------------------- JavaScript values
\* A JavaScript value is undefined, null or a string; a string is a sequence
\* of tokens (single characters for emails and organization names, which the
\* code trims and lower-cases; whole words for values it only compares).
Undef == [t |-> "undefined", s |-> <<>>]
Null == [t |-> "null", s |-> <<>>]
Str(s) == [t |-> "string", s |-> s]
Word(w) == Str(<<w>>)
Empty == Str(<<>>)

\* JavaScript truthiness of a value (undefined, null and '' are falsy)
Truthy(v) == v.t = "string" /\ v.s # <<>>
\* a || b
Or(a, b) == IF Truthy(a) THEN a ELSE b

\* String.prototype.toLowerCase, on the alphabet the model uses
LowerChar(c) ==
  CASE c = "J" -> "j"
    [] c = "X" -> "x"
    [] c = "K" -> "k"
    [] c = "A" -> "a"
    [] c = "C" -> "c"
    [] c = "B" -> "b"
    [] OTHER -> c
ToLowerCase(s) == [i \in 1..Len(s) |-> LowerChar(s[i])]

\* String.prototype.trim
RECURSIVE TrimStart(_)
TrimStart(s) == IF s # <<>> /\ Head(s) = " " THEN TrimStart(Tail(s)) ELSE s
RECURSIVE TrimEnd(_)
TrimEnd(s) ==
  IF s # <<>> /\ s[Len(s)] = " " THEN TrimEnd(SubSeq(s, 1, Len(s) - 1)) ELSE s
Trim(s) == TrimEnd(TrimStart(s))

\* email.toLowerCase().trim()
NormalizeEmail(s) == Trim(ToLowerCase(s))
\* companyName.trim().toLowerCase()
NormalizeName(s) == ToLowerCase(Trim(s))

\* ----------------------------------------------------------- configuration
Prospect == Word("prospect")
Client == Word("client")
ContractSigned == Word("contract-signed")
Kickoff == Word("kickoff")
Renewal == Word("renewal")
Interest == Word("interest")

\* PIPELINE_STAGES: the stages of each pipeline type
PIPELINE_STAGES(pipeline) ==
  CASE pipeline = Word("prospect") ->
         {Word("interest"), Word("meeting"), Word("proposal"), Word("contract"),
          Word("contract-signed")}
    [] pipeline = Word("client") ->
         {Word("kickoff"), Word("work-started"), Word("work-delivered"),
          Word("sustainment"), Word("renewal"), Word("terminated-contract")}
    [] pipeline = Word("collaborator") ->
         {Word("interest"), Word("meeting"), Word("moa"), Word("agreement")}
    [] pipeline = Word("institution") ->
         {Word("interest"), Word("meeting"), Word("moa"), Word("agreement")}
    [] OTHER -> {}
\* getStagesForPipeline: PIPELINE_STAGES[pipeline] || []
GetStagesForPipeline(pipeline) == PIPELINE_STAGES(pipeline)
\* isValidStageForPipeline
IsValidStageForPipeline(stage, pipeline) == stage \in GetStagesForPipeline(pipeline)

\* the tenants (CompanyHQ rows), created out of band
Tenants == {"T1", "T2"}
\* an id that names no CompanyHQ row
UnknownTenant == "T9"

\* ------------------------------------------------------------------- state
VARIABLES
  contacts,       \* Contact rows
  companies,      \* Company rows
  pipelines,      \* Pipeline rows
  nextContactId, nextCompanyId, nextPipelineId,   \* fresh ids (cuid())
  pc,             \* where each request is in its handler
  req,            \* each request's parameters
  loc,            \* each handler's local variables
  resp            \* each request's response

vars == <<contacts, companies, pipelines, nextContactId, nextCompanyId,
          nextPipelineId, pc, req, loc, resp>>
store == <<contacts, companies, pipelines, nextContactId, nextCompanyId,
           nextPipelineId>>

NoContact ==
  [id |-> 0, crmId |-> "", email |-> Null, firstName |-> Null,
   lastName |-> Null, contactCompanyId |-> 0]
NoCompany ==
  [id |-> 0, companyHQId |-> "", companyName |-> <<>>, address |-> Null,
   website |-> Null]
NoPipeline == [id |-> 0, contactId |-> 0, pipeline |-> Null, stage |-> Null]

NoReq ==
  [op |-> "none", crmId |-> "", scope |-> "", contactId |-> 0,
   email |-> Undef, firstName |-> Undef, lastName |-> Undef,
   contactCompanyId |-> 0, companyName |-> Undef, website |-> Undef,
   address |-> Undef, pipeline |-> Undef, stage |-> Undef]
NoLoc ==
  [companyId |-> 0, company |-> NoCompany, existing |-> NoContact,
   newPipeline |-> Undef, newStage |-> Undef, contactId |-> 0,
   toDelete |-> <<>>, deletedCount |-> 0, keptIds |-> {}]
NoResp ==
  [status |-> 0, converted |-> FALSE, contact |-> NoContact,
   pipeline |-> NoPipeline, list |-> {}, deleted |-> 0, kept |-> 0]

Init ==
  /\ contacts = {}
  /\ companies = {}
  /\ pipelines = {}
  /\ nextContactId = 1
  /\ nextCompanyId = 1
  /\ nextPipelineId = 1
  /\ pc = [p \in Procs |-> "idle"]
  /\ req = [p \in Procs |-> NoReq]
  /\ loc = [p \in Procs |-> NoLoc]
  /\ resp = [p \in Procs |-> NoResp]

\* ------------------------------------------------------------ store access
\* faulty variant of the lookup by id, for the sensitivity of C21: one that
\* returns the stored rows whatever the id
ContactByIdAny(id) == contacts

ContactById(id) == {c \in contacts : c.id = id}
CompanyById(id) == {c \in companies : c.id = id}
\* pipeline rows of a contact (the relation `pipeline Pipeline?`)
PipelinesOf(cid) == {r \in pipelines : r.contactId = cid}
\* what `include: { pipeline: true }` returns for a contact
IncludePipeline(cid) ==
  IF PipelinesOf(cid) = {} THEN NoPipeline ELSE CHOOSE r \in PipelinesOf(cid) : TRUE

\* faulty variant of the upsert, for the sensitivity of C7: one that inserts a row whether or not one exists
UpsertPipelineInsert(cid, upd, cre) ==
  /\ pipelines' = pipelines \cup
       {[id |-> nextPipelineId, contactId |-> cid,
         pipeline |-> cre.pipeline, stage |-> cre.stage]}
  /\ nextPipelineId' = nextPipelineId + 1

\* prisma.pipeline.upsert({ where: { contactId }, update, create }):
\* contactId is @unique, the upsert is one statement of the store
UpsertPipeline(cid, upd, cre) ==
  IF PipelinesOf(cid) # {}
  THEN /\ pipelines' = {IF r.contactId = cid
                         THEN [r EXCEPT !.pipeline = IF upd.pipeline = Undef THEN @ ELSE upd.pipeline,
                                        !.stage = IF upd.stage = Undef THEN @ ELSE upd.stage]
                         ELSE r : r \in pipelines}
       /\ UNCHANGED nextPipelineId
  ELSE /\ pipelines' = pipelines \cup
            {[id |-> nextPipelineId, contactId |-> cid,
              pipeline |-> cre.pipeline, stage |-> cre.stage]}
       /\ nextPipelineId' = nextPipelineId + 1

\* faulty variant of the tenant check, for the sensitivity of C20: one that
\* accepts every id
TenantExistsAlways(crmId) == TRUE

\* prisma.companyHQ.findUnique({ where: { id: crmId } }) found a row
TenantExists(crmId) == crmId \in Tenants

\* faulty variant of the cascade, for the sensitivity of C16: one that keeps
\* the Pipeline rows of a deleted contact
PipelinesKeptOnDelete(cid) == pipelines

\* Pipeline.contact is onDelete: Cascade: the rows left once contact cid is
\* deleted
PipelinesAfterDelete(cid) == pipelines \ PipelinesOf(cid)

\* ------------------------------------------------------- process plumbing
Goto(p, label) == pc' = [pc EXCEPT ![p] = label]
SetLoc(p, l) == loc' = [loc EXCEPT ![p] = l]
\* res.status(s).json(...)
Respond(p, r) ==
  /\ pc' = [pc EXCEPT ![p] = "done"]
  /\ resp' = [resp EXCEPT ![p] = r]
\* the catch block of a handler: res.status(500)
Throw(p) == Respond(p, [NoResp EXCEPT !.status = 500])

InFlight(ops) ==
  Cardinality({q \in Procs : pc[q] \notin {"idle", "done"} /\ req[q].op \in ops})
NamesCompany(r) == Truthy(r.companyName) /\ (r.op = "post" => r.contactCompanyId = 0)
\* the calls in flight that may still create a Company row
CompaniesInFlight ==
  Cardinality({q \in Procs : pc[q] \in {"pc_findCompanies", "pc_createCompany",
                                        "uc_findCompanies", "uc_createCompany"}})
\* the model's bound on the rows a run creates
Budget(r) ==
  /\ (nextContactId - 1) + InFlight({"post", "universal"}) < MaxContacts
  /\ NamesCompany(r) => (nextCompanyId - 1) + CompaniesInFlight < MaxCompanies

\* the client reads the response; the process is free again
Reply(p) ==
  /\ pc[p] = "done"
  /\ pc' = [pc EXCEPT ![p] = "idle"]
  /\ req' = [req EXCEPT ![p] = NoReq]
  /\ loc' = [loc EXCEPT ![p] = NoLoc]
  /\ resp' = [resp EXCEPT ![p] = NoResp]
  /\ UNCHANGED store

\* ------------------------------------------------------- shared helpers
\* extractDomainFromEmail: /^[^\s@]+@([^\s@]+)$/, group 1 lower-cased
AtPositions(s) == {i \in 1..Len(s) : s[i] = "@"}
ExtractDomainFromEmail(s) ==
  IF /\ Cardinality(AtPositions(s)) = 1
     /\ \A i \in 1..Len(s) : s[i] # " "
     /\ \A i \in AtPositions(s) : i > 1 /\ i < Len(s)
  THEN Str(ToLowerCase(SubSeq(s, (CHOOSE i \in AtPositions(s) : TRUE) + 1, Len(s))))
  ELSE Null
\* inferWebsiteFromEmail: `https://www.${domain}` or null
InferWebsiteFromEmail(s) ==
  IF ExtractDomainFromEmail(s) = Null
  THEN Null
  ELSE Str(<<"https://www.">> \o ExtractDomainFromEmail(s).s)
\* websiteUrl of universal-create: the supplied website, else inferred from
\* the email when there is one
WebsiteUrl(r) ==
  IF Truthy(r.website) THEN r.website
  ELSE IF Truthy(r.email) THEN InferWebsiteFromEmail(r.email.s)
  ELSE r.website

\* faulty variant of the scan, for the sensitivity of C10: one that compares the stored name with the name as sent
MatchingCompaniesExact(crmId, name) ==
  {c \in companies : c.companyHQId = crmId /\ c.companyName = name.s}

\* allCompanies.find(c => c.companyName &&
\*   c.companyName.trim().toLowerCase() === normalizedCompanyName.toLowerCase())
\* over prisma.company.findMany({ where: { companyHQId: crmId } })
MatchingCompanies(crmId, name) ==
  {c \in companies :
     /\ c.companyHQId = crmId
     /\ c.companyName # <<>>
     /\ ToLowerCase(Trim(c.companyName)) = ToLowerCase(Trim(name.s))}

\* faulty variant of the scan, for the sensitivity of C8: by normalized email over the contacts of every tenant
MatchingContactsAnyTenant(crmId, email) ==
  {c \in contacts :
     /\ c.email # Null
     /\ Truthy(c.email)
     /\ NormalizeEmail(c.email.s) = NormalizeEmail(email.s)}

\* universal-create: findMany({ crmId, email: { not: null } }) and
\* find(c => c.email && c.email.toLowerCase().trim() === normalizedEmail)
MatchingContactsNormalized(crmId, email) ==
  {c \in contacts :
     /\ c.crmId = crmId
     /\ c.email # Null
     /\ Truthy(c.email)
     /\ NormalizeEmail(c.email.s) = NormalizeEmail(email.s)}

\* POST /: prisma.contact.findFirst({ where: { crmId, email } }), the email
\* as the caller sent it
MatchingContactsExact(crmId, email) ==
  {c \in contacts : c.crmId = crmId /\ c.email = email}

\* faulty variant of the update data, for the sensitivity of C30: one that
\* also writes the email as the caller sent it
MergedContactWithEmail(row, r, existing, companyId) ==
  [row EXCEPT
     !.email = r.email,
     !.firstName = Or(r.firstName, existing.firstName),
     !.lastName = Or(r.lastName, existing.lastName),
     !.contactCompanyId = IF companyId # 0 THEN companyId ELSE existing.contactCompanyId]

\* the data of contact.update in the two create-or-update handlers:
\* every field is `supplied || existingContact.field`
MergedContact(row, r, existing, companyId) ==
  [row EXCEPT
     !.firstName = Or(r.firstName, existing.firstName),
     !.lastName = Or(r.lastName, existing.lastName),
     !.contactCompanyId = IF companyId # 0 THEN companyId ELSE existing.contactCompanyId]

\* the data of contact.create in the two create-or-update handlers
NewContact(r, companyId) ==
  [id |-> nextContactId,
   crmId |-> r.crmId,
   email |-> IF Truthy(r.email) THEN Str(Trim(ToLowerCase(r.email.s))) ELSE Null,
   firstName |-> Or(r.firstName, Null),
   lastName |-> Or(r.lastName, Null),
   contactCompanyId |-> companyId]

\* a foreign key of the store: a referenced row must exist
CompanyRefOk(companyId) == companyId = 0 \/ CompanyById(companyId) # {}

\* pipeline: { create: { pipeline, stage: stage || null } } nested in
\* contact.create, when a pipeline was supplied
CreateContactWithPipeline(p, r, companyId) ==
  IF ~CompanyRefOk(companyId)
  THEN /\ Throw(p)
       /\ UNCHANGED <<store, req, loc>>
  ELSE /\ contacts' = contacts \cup {NewContact(r, companyId)}
       /\ nextContactId' = nextContactId + 1
       /\ IF Truthy(r.pipeline)
          THEN /\ pipelines' = pipelines \cup
                    {[id |-> nextPipelineId, contactId |-> nextContactId,
                      pipeline |-> r.pipeline, stage |-> Or(r.stage, Null)]}
               /\ nextPipelineId' = nextPipelineId + 1
          ELSE UNCHANGED <<pipelines, nextPipelineId>>
       /\ Respond(p, [NoResp EXCEPT
            !.status = 200,
            !.contact = NewContact(r, companyId),
            !.pipeline = IF Truthy(r.pipeline)
                         THEN [id |-> nextPipelineId, contactId |-> nextContactId,
                               pipeline |-> r.pipeline, stage |-> Or(r.stage, Null)]
                         ELSE NoPipeline])
       /\ UNCHANGED <<companies, nextCompanyId, req, loc>>

\* contact.update({ where: { id: existingContact.id }, data: merged })
UpdateExistingContact(p, next) ==
  LET r == req[p]
      l == loc[p]
      rows == ContactById(l.existing.id)
  IN IF rows = {} \/ ~CompanyRefOk(l.companyId)
     THEN /\ Throw(p)
          /\ UNCHANGED <<store, req, loc>>
     ELSE LET row == CHOOSE c \in rows : TRUE
              new == MergedContact(row, r, l.existing, l.companyId)
          IN /\ contacts' = (contacts \ {row}) \cup {new}
             /\ SetLoc(p, [l EXCEPT !.contactId = row.id])
             /\ IF Truthy(r.pipeline)
                THEN Goto(p, next) /\ UNCHANGED resp
                ELSE Respond(p, [NoResp EXCEPT !.status = 200, !.contact = new,
                                               !.pipeline = IncludePipeline(row.id)])
             /\ UNCHANGED <<companies, pipelines, nextContactId, nextCompanyId,
                            nextPipelineId, req>>

\* the pipeline.upsert of the two create-or-update handlers: the caller's
\* pair as it is
UpsertSuppliedPipeline(p, next) ==
  LET r == req[p]
      cid == loc[p].contactId
      data == [pipeline |-> r.pipeline, stage |-> Or(r.stage, Null)]
  IN IF ContactById(cid) = {}
     THEN /\ Throw(p)
          /\ UNCHANGED <<store, req, loc>>
     ELSE /\ UpsertPipeline(cid, data, data)
          /\ Goto(p, next)
          /\ UNCHANGED <<contacts, companies, nextContactId, nextCompanyId,
                         req, loc, resp>>

\* contact.findUnique({ where: { id }, include: { pipeline: true } }) and the
\* success response
RefetchAndRespond(p, converted) ==
  LET cid == loc[p].contactId
      rows == ContactById(cid)
  IN /\ Respond(p, [NoResp EXCEPT
          !.status = 200,
          !.converted = converted,
          !.contact = IF rows = {} THEN NoContact ELSE CHOOSE c \in rows : TRUE,
          !.pipeline = IF rows = {} THEN NoPipeline ELSE IncludePipeline(cid)])
     /\ UNCHANGED <<store, req, loc>>

\* ------------------------------------- POST /api/contacts/universal-create
\* faulty variant of the branch, for the sensitivity of C19: one that looks
\* for an existing contact whether or not the call carries an email
UC_AfterCompanyLookup(r) == "uc_lookup"

\* where the handler goes once the company is settled
UC_AfterCompany(r) == IF Truthy(r.email) THEN "uc_lookup" ELSE "uc_create"

\* the request arrives; the tenant is verified
UC_Start(p, r) ==
  /\ pc[p] = "idle"
  /\ r.op = "universal"
  /\ Budget(r)
  /\ req' = [req EXCEPT ![p] = r]
  /\ IF r.crmId = ""
     THEN /\ Respond(p, [NoResp EXCEPT !.status = 400])
          /\ UNCHANGED loc
     ELSE IF ~TenantExists(r.crmId)
     THEN /\ Respond(p, [NoResp EXCEPT !.status = 404])
          /\ UNCHANGED loc
     ELSE /\ SetLoc(p, [NoLoc EXCEPT !.companyId = r.contactCompanyId])
          /\ Goto(p, IF Truthy(r.companyName) THEN "uc_findCompanies"
                     ELSE UC_AfterCompany(r))
          /\ UNCHANGED resp
  /\ UNCHANGED store

\* company.findMany and the scan for the normalized name
UC_FindCompanies(p) ==
  /\ pc[p] = "uc_findCompanies"
  /\ LET found == MatchingCompanies(req[p].crmId, req[p].companyName)
     IN IF found = {}
        THEN Goto(p, "uc_createCompany") /\ UNCHANGED loc
        ELSE \E c \in found :
               /\ SetLoc(p, [loc[p] EXCEPT !.company = c])
               /\ Goto(p, "uc_fetchCompany")
  /\ UNCHANGED <<store, req, resp>>

\* company.findUnique of the company found, then the website test
UC_FetchCompany(p) ==
  /\ pc[p] = "uc_fetchCompany"
  /\ LET company == CHOOSE c \in CompanyById(loc[p].company.id) : TRUE
     IN IF Truthy(WebsiteUrl(req[p])) /\ ~Truthy(company.website)
        THEN /\ SetLoc(p, [loc[p] EXCEPT !.company = company])
             /\ Goto(p, "uc_updateCompany")
        ELSE /\ SetLoc(p, [loc[p] EXCEPT !.company = company, !.companyId = company.id])
             /\ Goto(p, UC_AfterCompany(req[p]))
  /\ UNCHANGED <<store, req, resp>>

\* company.update({ data: { website: websiteUrl } })
UC_UpdateCompany(p) ==
  /\ pc[p] = "uc_updateCompany"
  /\ companies' = {IF c.id = loc[p].company.id
                   THEN [c EXCEPT !.website = WebsiteUrl(req[p])]
                   ELSE c : c \in companies}
  /\ SetLoc(p, [loc[p] EXCEPT !.companyId = loc[p].company.id])
  /\ Goto(p, UC_AfterCompany(req[p]))
  /\ UNCHANGED <<contacts, pipelines, nextContactId, nextCompanyId,
                 nextPipelineId, req, resp>>

\* company.create with the trimmed name and the fallback fields
UC_CreateCompany(p) ==
  /\ pc[p] = "uc_createCompany"
  /\ companies' = companies \cup
       {[id |-> nextCompanyId,
         companyHQId |-> req[p].crmId,
         companyName |-> Trim(req[p].companyName.s),
         address |-> Or(req[p].address, Null),
         website |-> Or(WebsiteUrl(req[p]), Null)]}
  /\ nextCompanyId' = nextCompanyId + 1
  /\ SetLoc(p, [loc[p] EXCEPT !.companyId = nextCompanyId])
  /\ Goto(p, UC_AfterCompany(req[p]))
  /\ UNCHANGED <<contacts, pipelines, nextContactId, nextPipelineId, req, resp>>

\* contact.findMany of the tenant and the scan for the normalized email
UC_Lookup(p) ==
  /\ pc[p] = "uc_lookup"
  /\ LET found == MatchingContactsNormalized(req[p].crmId, req[p].email)
     IN IF found = {}
        THEN Goto(p, "uc_create") /\ UNCHANGED loc
        ELSE \E c \in found :
               /\ SetLoc(p, [loc[p] EXCEPT !.existing = c])
               /\ Goto(p, "uc_update")
  /\ UNCHANGED <<store, req, resp>>

UC_Update(p) ==
  /\ pc[p] = "uc_update"
  /\ UpdateExistingContact(p, "uc_upsert")

UC_Upsert(p) ==
  /\ pc[p] = "uc_upsert"
  /\ UpsertSuppliedPipeline(p, "uc_refetch")

UC_Refetch(p) ==
  /\ pc[p] = "uc_refetch"
  /\ RefetchAndRespond(p, FALSE)

UC_Create(p) ==
  /\ pc[p] = "uc_create"
  /\ CreateContactWithPipeline(p, req[p], loc[p].companyId)

\* ------------------------------------------------------ POST /api/contacts
PC_AfterCompany(r) == IF Truthy(r.email) THEN "pc_lookup" ELSE "pc_create"

PC_Start(p, r) ==
  /\ pc[p] = "idle"
  /\ r.op = "post"
  /\ Budget(r)
  /\ req' = [req EXCEPT ![p] = r]
  /\ IF r.crmId = ""
     THEN /\ Respond(p, [NoResp EXCEPT !.status = 400])
          /\ UNCHANGED loc
     ELSE IF ~TenantExists(r.crmId)
     THEN /\ Respond(p, [NoResp EXCEPT !.status = 404])
          /\ UNCHANGED loc
     ELSE /\ SetLoc(p, [NoLoc EXCEPT !.companyId = r.contactCompanyId])
          /\ Goto(p, IF Truthy(r.companyName) /\ r.contactCompanyId = 0
                     THEN "pc_findCompanies"
                     ELSE PC_AfterCompany(r))
          /\ UNCHANGED resp
  /\ UNCHANGED store

PC_FindCompanies(p) ==
  /\ pc[p] = "pc_findCompanies"
  /\ LET found == MatchingCompanies(req[p].crmId, req[p].companyName)
     IN IF found = {}
        THEN Goto(p, "pc_createCompany") /\ UNCHANGED loc
        ELSE \E c \in found :
               /\ SetLoc(p, [loc[p] EXCEPT !.company = c])
               /\ Goto(p, "pc_fetchCompany")
  /\ UNCHANGED <<store, req, resp>>

PC_FetchCompany(p) ==
  /\ pc[p] = "pc_fetchCompany"
  /\ LET company == CHOOSE c \in CompanyById(loc[p].company.id) : TRUE
     IN /\ SetLoc(p, [loc[p] EXCEPT !.company = company, !.companyId = company.id])
        /\ Goto(p, PC_AfterCompany(req[p]))
  /\ UNCHANGED <<store, req, resp>>

\* company.create with the trimmed name only
PC_CreateCompany(p) ==
  /\ pc[p] = "pc_createCompany"
  /\ companies' = companies \cup
       {[id |-> nextCompanyId,
         companyHQId |-> req[p].crmId,
         companyName |-> Trim(req[p].companyName.s),
         address |-> Null,
         website |-> Null]}
  /\ nextCompanyId' = nextCompanyId + 1
  /\ SetLoc(p, [loc[p] EXCEPT !.companyId = nextCompanyId])
  /\ Goto(p, PC_AfterCompany(req[p]))
  /\ UNCHANGED <<contacts, pipelines, nextContactId, nextPipelineId, req, resp>>

\* contact.findFirst by the tenant and the email as sent
PC_Lookup(p) ==
  /\ pc[p] = "pc_lookup"
  /\ LET found == MatchingContactsExact(req[p].crmId, req[p].email)
     IN IF found = {}
        THEN Goto(p, "pc_create") /\ UNCHANGED loc
        ELSE \E c \in found :
               /\ SetLoc(p, [loc[p] EXCEPT !.existing = c])
               /\ Goto(p, "pc_update")
  /\ UNCHANGED <<store, req, resp>>

PC_Update(p) ==
  /\ pc[p] = "pc_update"
  /\ UpdateExistingContact(p, "pc_upsert")

PC_Upsert(p) ==
  /\ pc[p] = "pc_upsert"
  /\ UpsertSuppliedPipeline(p, "pc_refetch")

PC_Refetch(p) ==
  /\ pc[p] = "pc_refetch"
  /\ RefetchAndRespond(p, FALSE)

PC_Create(p) ==
  /\ pc[p] = "pc_create"
  /\ CreateContactWithPipeline(p, req[p], loc[p].companyId)

\* ------------------------------------------------ PipelineTriggerService
\* faulty variant of the rule, for the sensitivity of C3: keyed on a misspelt stage
CheckPipelineTriggersMisspelt(newPipeline, newStage) ==
  newPipeline = Prospect /\ newStage = Word("contract_signed")

\* faulty variant of the rule, for the sensitivity of C29: one with a second
\* rule keyed on the output of the first
CheckPipelineTriggersChained(newPipeline, newStage) ==
  \/ newPipeline = Prospect /\ newStage = ContractSigned
  \/ newPipeline = Client /\ newStage = Kickoff

\* checkPipelineTriggers: the one rule, keyed on the proposed pair
CheckPipelineTriggers(newPipeline, newStage) ==
  newPipeline = Prospect /\ newStage = ContractSigned

\* convertProspectToClient: pipeline.upsert to client/kickoff
ConvertProspectToClient(cid) ==
  UpsertPipeline(cid, [pipeline |-> Client, stage |-> Kickoff],
                      [pipeline |-> Client, stage |-> Kickoff])

\* ---------------------------------------------- PUT /api/contacts/:contactId
\* the request arrives; contact.findUnique({ where: { id: contactId } })
PUT_Start(p, r) ==
  /\ pc[p] = "idle"
  /\ r.op = "put"
  /\ req' = [req EXCEPT ![p] = r]
  /\ IF ContactById(r.contactId) = {}
     THEN /\ Respond(p, [NoResp EXCEPT !.status = 404])
          /\ UNCHANGED loc
     ELSE /\ SetLoc(p, [NoLoc EXCEPT
                !.existing = CHOOSE c \in ContactById(r.contactId) : TRUE,
                !.contactId = r.contactId])
          /\ Goto(p, "put_update")
          /\ UNCHANGED resp
  /\ UNCHANGED store

\* updateData: the fields that are not undefined, as sent
PutUpdateData(row, r) ==
  [row EXCEPT
     !.firstName = IF r.firstName # Undef THEN r.firstName ELSE @,
     !.lastName = IF r.lastName # Undef THEN r.lastName ELSE @,
     !.email = IF r.email # Undef THEN r.email ELSE @,
     !.contactCompanyId = IF r.contactCompanyId # 0 THEN r.contactCompanyId ELSE @]

\* contact.update({ where: { id: contactId }, data: updateData })
PUT_Update(p) ==
  /\ pc[p] = "put_update"
  /\ LET r == req[p]
         rows == ContactById(r.contactId)
     IN IF rows = {} \/ ~CompanyRefOk(r.contactCompanyId)
        THEN /\ Throw(p)
             /\ UNCHANGED store
        ELSE LET row == CHOOSE c \in rows : TRUE
                 new == PutUpdateData(row, r)
             IN /\ contacts' = (contacts \ {row}) \cup {new}
                /\ IF r.pipeline # Undef \/ r.stage # Undef
                   THEN Goto(p, "put_current") /\ UNCHANGED resp
                   ELSE Respond(p, [NoResp EXCEPT !.status = 200, !.contact = new,
                                                  !.pipeline = IncludePipeline(row.id)])
                /\ UNCHANGED <<companies, pipelines, nextContactId, nextCompanyId,
                               nextPipelineId>>
  /\ UNCHANGED <<req, loc>>

\* faulty variant of the merge, for the sensitivity of C23: one that
\* evaluates the supplied pipeline alone
NewPipelineSuppliedOnly(r, current) == r.pipeline

\* newPipeline and newStage: the supplied value, else the current one, else
\* 'prospect' / null
NewPipeline(r, current) ==
  IF r.pipeline # Undef THEN r.pipeline
  ELSE IF current # NoPipeline THEN Or(current.pipeline, Prospect)
  ELSE Prospect
NewStage(r, current) ==
  IF r.stage # Undef THEN r.stage
  ELSE IF current # NoPipeline THEN Or(current.stage, Null)
  ELSE Null

\* pipeline.findUnique({ where: { contactId } }), then applyPipelineTriggers
\* up to its first store call
PUT_Current(p) ==
  /\ pc[p] = "put_current"
  /\ LET current == IncludePipeline(req[p].contactId)
         np == NewPipeline(req[p], current)
         ns == NewStage(req[p], current)
     IN /\ SetLoc(p, [loc[p] EXCEPT !.newPipeline = np, !.newStage = ns])
        /\ Goto(p, IF CheckPipelineTriggers(np, ns) THEN "put_convert" ELSE "put_upsert")
  /\ UNCHANGED <<store, req, resp>>

\* convertProspectToClient: the upsert
PUT_Convert(p) ==
  /\ pc[p] = "put_convert"
  /\ IF ContactById(req[p].contactId) = {}
     THEN /\ Throw(p)
          /\ UNCHANGED store
     ELSE /\ ConvertProspectToClient(req[p].contactId)
          /\ Goto(p, "put_converted")
          /\ UNCHANGED <<contacts, companies, nextContactId, nextCompanyId, resp>>
  /\ UNCHANGED <<req, loc>>

\* convertProspectToClient: contact.findUnique; the route answers
\* converted: true when a contact came back, else goes on to the normal upsert
PUT_Converted(p) ==
  /\ pc[p] = "put_converted"
  /\ IF ContactById(req[p].contactId) = {}
     THEN /\ Goto(p, "put_upsert")
          /\ UNCHANGED <<store, req, loc, resp>>
     ELSE RefetchAndRespond(p, TRUE)

\* faulty variant of the create data, for the sensitivity of C6: one that ignores the supplied pipeline
PutPipelineCreateDefault(r) ==
  [pipeline |-> Prospect, stage |-> Or(r.stage, Null)]

\* the update and create data of the route's own pipeline.upsert
PutPipelineUpdate(r) == [pipeline |-> r.pipeline, stage |-> r.stage]
PutPipelineCreate(r) ==
  [pipeline |-> Or(r.pipeline, Prospect), stage |-> Or(r.stage, Null)]

PUT_Upsert(p) ==
  /\ pc[p] = "put_upsert"
  /\ IF ContactById(req[p].contactId) = {}
     THEN /\ Throw(p)
          /\ UNCHANGED store
     ELSE /\ UpsertPipeline(req[p].contactId, PutPipelineUpdate(req[p]),
                            PutPipelineCreate(req[p]))
          /\ Goto(p, "put_refetch")
          /\ UNCHANGED <<contacts, companies, nextContactId, nextCompanyId, resp>>
  /\ UNCHANGED <<req, loc>>

PUT_Refetch(p) ==
  /\ pc[p] = "put_refetch"
  /\ RefetchAndRespond(p, FALSE)

\* ------------------------------------------- DELETE /api/contacts/:contactId
DEL_Start(p, r) ==
  /\ pc[p] = "idle"
  /\ r.op = "delete"
  /\ req' = [req EXCEPT ![p] = r]
  /\ IF ContactById(r.contactId) = {}
     THEN Respond(p, [NoResp EXCEPT !.status = 404])
     ELSE Goto(p, "del_delete") /\ UNCHANGED resp
  /\ UNCHANGED <<store, loc>>

\* contact.delete; Pipeline.contact is onDelete: Cascade
DEL_Delete(p) ==
  /\ pc[p] = "del_delete"
  /\ IF ContactById(req[p].contactId) = {}
     THEN /\ Throw(p)
          /\ UNCHANGED store
     ELSE /\ contacts' = contacts \ ContactById(req[p].contactId)
          /\ pipelines' = PipelinesAfterDelete(req[p].contactId)
          /\ Respond(p, [NoResp EXCEPT !.status = 200])
          /\ UNCHANGED <<companies, nextContactId, nextCompanyId, nextPipelineId>>
  /\ UNCHANGED <<req, loc>>

\* ---------------------------------------------- GET /api/contacts/:contactId
GET_Contact(p, r) ==
  /\ pc[p] = "idle"
  /\ r.op = "get"
  /\ req' = [req EXCEPT ![p] = r]
  /\ IF ContactById(r.contactId) = {}
     THEN Respond(p, [NoResp EXCEPT !.status = 404])
     ELSE Respond(p, [NoResp EXCEPT
            !.status = 200,
            !.contact = CHOOSE c \in ContactById(r.contactId) : TRUE,
            !.pipeline = IncludePipeline(r.contactId)])
  /\ UNCHANGED <<store, loc>>

\* ------------------------------------- GET /api/contacts?companyHQId=...
\* the where clause: crmId, and the pipeline relation filter when pipeline
\* and/or stage are given
ListWhere(r, c) ==
  /\ c.crmId = r.crmId
  /\ (Truthy(r.pipeline) \/ Truthy(r.stage)) =>
       \E row \in PipelinesOf(c.id) :
         /\ Truthy(r.pipeline) => row.pipeline = r.pipeline
         /\ Truthy(r.stage) => row.stage = r.stage

GET_List(p, r) ==
  /\ pc[p] = "idle"
  /\ r.op = "list"
  /\ req' = [req EXCEPT ![p] = r]
  /\ Respond(p, [NoResp EXCEPT
       !.status = 200,
       !.list = {c \in contacts : ListWhere(r, c)}])
  /\ UNCHANGED <<store, loc>>

\* ------------------------------------------------------------- test data
\* 'j@x', 'J@X' and ' j@x '
EmailPlain == Str(<<"j", "@", "x">>)
EmailUpper == Str(<<"J", "@", "X">>)
EmailPadded == Str(<<" ", "j", "@", "x", " ">>)
\* ' Ac ' and 'ac'
NamePadded == Str(<<" ", "A", "c", " ">>)
NameLower == Str(<<"a", "c">>)
\* ' ', a name that is empty once trimmed
NameBlank == Str(<<" ">>)

\* ------------------------------------------------------------- predicates
Quiescent == \A p \in Procs : pc[p] \in {"idle", "done"}

\* the claims' key of a contact: its tenant and its trim+lowercase email
SameNormalizedEmail(c, d) ==
  /\ c.crmId = d.crmId
  /\ Truthy(c.email) /\ Truthy(d.email)
  /\ NormalizeEmail(c.email.s) = NormalizeEmail(d.email.s)
SameNormalizedName(c, d) ==
  /\ c.companyHQId = d.companyHQId
  /\ NormalizeName(c.companyName) # <<>>
  /\ NormalizeName(c.companyName) = NormalizeName(d.companyName)

\* ------------------------------------------ calls one after the other
\* create-or-update calls of one tenant, one at a time: emails and
\* organization names in several casings and paddings
SeqRequests ==
  {[NoReq EXCEPT !.op = o, !.crmId = "T1", !.email = e, !.companyName = n] :
     o \in {"post", "universal"},
     e \in {EmailPlain, EmailUpper, EmailPadded},
     n \in {Undef, NamePadded, NameLower, NameBlank}}

NextSeq ==
  \/ \E r \in SeqRequests : PC_Start(1, r)
  \/ PC_FindCompanies(1)
  \/ PC_FetchCompany(1)
  \/ PC_CreateCompany(1)
  \/ PC_Lookup(1)
  \/ PC_Update(1)
  \/ PC_Create(1)
  \/ \E r \in SeqRequests : UC_Start(1, r)
  \/ UC_FindCompanies(1)
  \/ UC_FetchCompany(1)
  \/ UC_UpdateCompany(1)
  \/ UC_CreateCompany(1)
  \/ UC_Lookup(1)
  \/ UC_Update(1)
  \/ UC_Create(1)
  \/ Reply(1)

SpecSeq == Init /\ [][NextSeq]_vars

\* C1: after any sequence of create-or-update calls that carry an email, no
\* two Contact rows of one tenant share the same trim+lowercase email.
C1_OneContactPerEmail ==
  \A c, d \in contacts : SameNormalizedEmail(c, d) => c = d

\* C10: after any sequence of create-or-update calls that name an
\* organization, a tenant holds at most one Company row per trim+lowercase
\* name.
C10_OneCompanyPerName ==
  \A c, d \in companies : SameNormalizedName(c, d) => c = d

\* C10 witness: a call that named 'ac' has resolved to the row that an
\* earlier call stored as 'Ac', and no second row exists
C10_Witness ==
  /\ pc[1] = "done"
  /\ req[1].companyName = NameLower
  /\ resp[1].status = 200
  /\ \E c \in companies :
       /\ c.companyName = <<"A", "c">>
       /\ resp[1].contact.contactCompanyId = c.id
       /\ companies = {c}

\* ------------------------------------------- two calls for one new email
\* concurrent create-or-update calls of one tenant that all carry the same
\* email, already in normal form: run one after the other they find each
\* other's row
RaceRequests ==
  {[NoReq EXCEPT !.op = o, !.crmId = t, !.email = EmailPlain] :
     o \in {"post", "universal"}, t \in Tenants}

NextRace ==
  \E p \in Procs :
    \/ \E r \in RaceRequests : PC_Start(p, r)
    \/ PC_Lookup(p)
    \/ PC_Update(p)
    \/ PC_Create(p)
    \/ \E r \in RaceRequests : UC_Start(p, r)
    \/ UC_Lookup(p)
    \/ UC_Update(p)
    \/ UC_Create(p)
    \/ Reply(p)

SpecRace == Init /\ [][NextRace]_vars

\* C2: when two create-or-update calls for the same tenant and the same new
\* email run concurrently, exactly one Contact row for that email exists
\* once both have completed, and neither call has answered with an error.
C2_RaceLeavesOneContact ==
  Quiescent =>
    /\ \A c, d \in contacts : SameNormalizedEmail(c, d) => c = d
    /\ \A p \in Procs : pc[p] = "done" => resp[p].status = 200

\* ------------------------------------------------- updates by contact id
\* the (pipeline, stage) pairs of the pipelines' rows of a contact
PairsOf(cid) == {<<r.pipeline, r.stage>> : r \in PipelinesOf(cid)}
\* process p takes a step of the handler from the label `from`
Steps(p, from) == pc[p] = from /\ pc'[p] # from
\* process p answers in this step
Answers(p) == pc[p] # "done" /\ pc'[p] = "done"

\* contacts are created without pipeline fields; every pipeline write is an
\* update by id
PutCreateRequests ==
  {[NoReq EXCEPT !.op = "universal", !.crmId = "T1"]}
\* the pairs a caller sends: the triggering pair, a pair no rule matches,
\* a stage alone, a pipeline alone, an empty pipeline with a stage, and a
\* stage of another pipeline type
PutPairs ==
  {<<Prospect, ContractSigned>>, <<Client, Renewal>>, <<Undef, ContractSigned>>,
   <<Prospect, Undef>>, <<Empty, ContractSigned>>, <<Client, Interest>>}
PutRequests ==
  {[NoReq EXCEPT !.op = "put", !.contactId = 1, !.pipeline = pr[1], !.stage = pr[2]] :
     pr \in PutPairs}
PutDeleteRequests == {[NoReq EXCEPT !.op = "delete", !.contactId = 1]}

NextPut ==
  \E p \in Procs :
    \/ \E r \in PutCreateRequests : UC_Start(p, r)
    \/ UC_Create(p)
    \/ \E r \in PutRequests : PUT_Start(p, r)
    \/ PUT_Update(p)
    \/ PUT_Current(p)
    \/ PUT_Convert(p)
    \/ PUT_Converted(p)
    \/ PUT_Upsert(p)
    \/ PUT_Refetch(p)
    \/ \E r \in PutDeleteRequests : DEL_Start(p, r)
    \/ DEL_Delete(p)
    \/ Reply(p)

SpecPut == Init /\ [][NextPut]_vars

IsTriggerRequest(r) ==
  r.op = "put" /\ r.pipeline = Prospect /\ r.stage = ContractSigned
IsPassthroughRequest(r) ==
  /\ r.op = "put"
  /\ Truthy(r.pipeline) /\ Truthy(r.stage)
  /\ ~(r.pipeline = Prospect /\ r.stage = ContractSigned)

\* C3: an update by id that proposes (prospect, contract-signed) for an
\* existing contact goes to the conversion whatever the contact's current
\* Pipeline State, the conversion leaves the contact at (client, kickoff),
\* and the call answers converted: true.
C3_TriggerAlwaysConverts ==
  [][\A p \in Procs :
       IsTriggerRequest(req[p]) =>
         /\ Steps(p, "put_current") => pc'[p] = "put_convert"
         /\ (Steps(p, "put_convert") /\ ContactById(req[p].contactId) # {}) =>
              PairsOf(req[p].contactId)' = {<<Client, Kickoff>>}
         /\ (Answers(p) /\ resp'[p].status = 200) => resp'[p].converted]_vars

\* C3 witness: two calls proposed the triggering pair for the same contact,
\* both answered converted: true, and the contact is at (client, kickoff)
C3_Witness ==
  \E p, q \in Procs :
    /\ p # q
    /\ pc[p] = "done" /\ pc[q] = "done"
    /\ IsTriggerRequest(req[p]) /\ IsTriggerRequest(req[q])
    /\ req[p].contactId = req[q].contactId
    /\ resp[p].converted /\ resp[q].converted
    /\ PairsOf(req[p].contactId) = {<<Client, Kickoff>>}

\* C5: once all in-flight calls have completed, no contact's stored
\* Pipeline State is (prospect, contract-signed), for any sequence and
\* interleaving of updates by id.
C5_NeverLeftAtContractSigned ==
  Quiescent => \A r \in pipelines : ~(r.pipeline = Prospect /\ r.stage = ContractSigned)

WriteRequests ==
  {[NoReq EXCEPT !.op = o, !.crmId = "T1", !.email = e,
                 !.pipeline = pr[1], !.stage = pr[2]] :
     o \in {"post", "universal"},
     e \in {EmailPlain, EmailUpper},
     pr \in {<<Undef, Undef>>, <<Prospect, Interest>>, <<Prospect, ContractSigned>>}}
WritePutRequests ==
  {[NoReq EXCEPT !.op = "put", !.contactId = 1, !.pipeline = pr[1], !.stage = pr[2]] :
     pr \in {<<Prospect, ContractSigned>>, <<Client, Renewal>>}}
WriteDeleteRequests == {[NoReq EXCEPT !.op = "delete", !.contactId = 1]}

Next ==
  \E p \in Procs :
    \/ \E r \in WriteRequests : PC_Start(p, r)
    \/ PC_Lookup(p)
    \/ PC_Update(p)
    \/ PC_Upsert(p)
    \/ PC_Refetch(p)
    \/ PC_Create(p)
    \/ \E r \in WriteRequests : UC_Start(p, r)
    \/ UC_Lookup(p)
    \/ UC_Update(p)
    \/ UC_Upsert(p)
    \/ UC_Refetch(p)
    \/ UC_Create(p)
    \/ \E r \in WritePutRequests : PUT_Start(p, r)
    \/ PUT_Update(p)
    \/ PUT_Current(p)
    \/ PUT_Convert(p)
    \/ PUT_Converted(p)
    \/ PUT_Upsert(p)
    \/ PUT_Refetch(p)
    \/ \E r \in WriteDeleteRequests : DEL_Start(p, r)
    \/ DEL_Delete(p)
    \/ Reply(p)

Spec == Init /\ [][Next]_vars

IsCreateOrUpdate(r) == r.op \in {"post", "universal"}

\* C4: a create-or-update call that matched an existing contact of the
\* tenant under normalization and carries (prospect, contract-signed)
\* leaves that contact's Pipeline State at (client, kickoff): the pipeline
\* write goes through trigger evaluation before it is persisted.
C4_CreateOrUpdateRunsTriggers ==
  [][\A p \in Procs :
       ( /\ IsCreateOrUpdate(req[p])
         /\ Steps(p, "pc_upsert") \/ Steps(p, "uc_upsert")
         /\ req[p].pipeline = Prospect /\ req[p].stage = ContractSigned
         /\ NormalizeEmail(loc[p].existing.email.s) = NormalizeEmail(req[p].email.s)
         /\ ContactById(loc[p].existing.id) # {} )
       => PairsOf(loc[p].existing.id)' = {<<Client, Kickoff>>}]_vars

\* C7: in every reachable state at most one Pipeline row references any
\* given Contact.
C7_OnePipelinePerContact ==
  \A r1, r2 \in pipelines : r1.contactId = r2.contactId => r1 = r2

\* C7 witness: a trigger conversion and a create-or-update upsert have both
\* written the pipeline of one contact, which has one Pipeline row
C7_Witness ==
  \E p, q \in Procs :
    /\ pc[p] = "done" /\ pc[q] = "done"
    /\ req[p].op = "put" /\ resp[p].converted
    /\ IsCreateOrUpdate(req[q]) /\ Truthy(req[q].pipeline)
    /\ loc[q].existing.id = req[p].contactId
    /\ resp[q].status = 200
    /\ Cardinality(PipelinesOf(req[p].contactId)) = 1

\* ------------------------------------------------------------ two tenants
\* the same email written under both tenants and under an id that names no
\* tenant, lists of each tenant, and get, update and delete by id sent by a
\* caller of either tenant (scope: the tenant of the authenticated caller,
\* which no handler by id reads)
TenantWriteRequests ==
  {[NoReq EXCEPT !.op = o, !.crmId = t, !.email = e] :
     o \in {"post", "universal"}, t \in Tenants \cup {UnknownTenant},
     e \in {EmailPlain, EmailUpper}}
TenantListRequests ==
  {[NoReq EXCEPT !.op = "list", !.crmId = t] : t \in Tenants}
TenantGetRequests ==
  {[NoReq EXCEPT !.op = "get", !.contactId = 1, !.scope = t] : t \in Tenants}
TenantPutRequests ==
  {[NoReq EXCEPT !.op = "put", !.contactId = 1, !.scope = t,
                 !.firstName = Word("Zed")] : t \in Tenants}
TenantDeleteRequests ==
  {[NoReq EXCEPT !.op = "delete", !.contactId = 1, !.scope = t] : t \in Tenants}

NextTenant ==
  \E p \in Procs :
    \/ \E r \in TenantWriteRequests : PC_Start(p, r)
    \/ PC_Lookup(p)
    \/ PC_Update(p)
    \/ PC_Create(p)
    \/ \E r \in TenantWriteRequests : UC_Start(p, r)
    \/ UC_Lookup(p)
    \/ UC_Update(p)
    \/ UC_Create(p)
    \/ \E r \in TenantListRequests : GET_List(p, r)
    \/ \E r \in TenantGetRequests : GET_Contact(p, r)
    \/ \E r \in TenantPutRequests : PUT_Start(p, r)
    \/ PUT_Update(p)
    \/ \E r \in TenantDeleteRequests : DEL_Start(p, r)
    \/ DEL_Delete(p)
    \/ Reply(p)

SpecTenant == Init /\ [][NextTenant]_vars

\* the Contact rows a step adds, removes or changes
Touched == (contacts \ contacts') \cup (contacts' \ contacts)

\* a list answers with contacts of the tenant it was asked for only
ListIsScoped ==
  \A p \in Procs :
    (pc[p] = "done" /\ req[p].op = "list") =>
      \A c \in resp[p].list : c.crmId = req[p].crmId
\* the contact that a create-or-update call matched is of the call's tenant
DedupIsScoped ==
  \A p \in Procs :
    (IsCreateOrUpdate(req[p]) /\ loc[p].existing # NoContact) =>
      loc[p].existing.crmId = req[p].crmId
\* a step of a create-or-update call touches contacts of its tenant only
WriteIsScoped ==
  \A p \in Procs :
    (IsCreateOrUpdate(req[p]) /\ pc'[p] # pc[p]) =>
      \A c \in Touched : c.crmId = req[p].crmId

\* C8: a Contact of tenant T1 is never returned by the list of tenant T2 and
\* never matched or modified by the email dedup lookup of a create-or-update
\* call for T2, even with an identical email.
C8_TenantIsolation ==
  [](ListIsScoped /\ DedupIsScoped) /\ [][WriteIsScoped]_vars

\* C8 witness: the same email is stored once under each tenant, and a list
\* of T2 has answered with the T2 row alone
C8_Witness ==
  \E c, d \in contacts :
    /\ c.crmId = "T1" /\ d.crmId = "T2"
    /\ c.email = EmailPlain /\ d.email = EmailPlain
    /\ \E p \in Procs :
         /\ pc[p] = "done" /\ req[p].op = "list" /\ req[p].crmId = "T2"
         /\ resp[p].list = {d}

\* C9: get, update and delete by contact id return or change a Contact only
\* when it belongs to the tenant the request is scoped to.
C9_ByIdTenantFiltered ==
  /\ [](\A p \in Procs :
          (pc[p] = "done" /\ req[p].op = "get" /\ resp[p].status = 200) =>
            resp[p].contact.crmId = req[p].scope)
  /\ [][\A p \in Procs :
          (req[p].op \in {"put", "delete"} /\ pc'[p] # pc[p]) =>
            \A c \in Touched : c.crmId = req[p].scope]_vars

\* ------------------------------------------- calls that name an organization
\* concurrent create-or-update calls of one tenant that name the organization
\* 'Ac' in two spellings: universal-create with and without the fallback
\* fields website and address, universal-create with an email to infer the
\* website from, and POST / with the name alone
CompanyRequests ==
  {[NoReq EXCEPT !.op = "universal", !.crmId = "T1", !.companyName = n,
                 !.website = w, !.address = a] :
     n \in {NamePadded, NameLower},
     w \in {Undef, Word("w1"), Word("w2")},
     a \in {Undef, Word("a1")}}
  \cup
  {[NoReq EXCEPT !.op = "universal", !.crmId = "T1", !.companyName = NameLower,
                 !.email = EmailPlain]}
  \cup
  {[NoReq EXCEPT !.op = "post", !.crmId = "T1", !.companyName = n] :
     n \in {NamePadded, NameLower}}

NextCompany ==
  \E p \in Procs :
    \/ \E r \in CompanyRequests : PC_Start(p, r)
    \/ PC_FindCompanies(p)
    \/ PC_FetchCompany(p)
    \/ PC_CreateCompany(p)
    \/ PC_Create(p)
    \/ \E r \in CompanyRequests : UC_Start(p, r)
    \/ UC_FindCompanies(p)
    \/ UC_FetchCompany(p)
    \/ UC_UpdateCompany(p)
    \/ UC_CreateCompany(p)
    \/ UC_Lookup(p)
    \/ UC_Update(p)
    \/ UC_Create(p)
    \/ Reply(p)

SpecCompany == Init /\ [][NextCompany]_vars

\* C11: when two create-or-update calls of one tenant name the same new
\* organization concurrently, exactly one Company row of that normalized
\* name exists once both have completed, and the contacts of both calls
\* reference it.
C11_RaceLeavesOneCompany ==
  Quiescent =>
    /\ \A c, d \in companies : SameNormalizedName(c, d) => c = d
    /\ \A p, q \in Procs :
         ( /\ pc[p] = "done" /\ pc[q] = "done"
           /\ resp[p].status = 200 /\ resp[q].status = 200
           /\ req[p].crmId = req[q].crmId
           /\ NormalizeName(req[p].companyName.s) = NormalizeName(req[q].companyName.s) )
         => resp[p].contact.contactCompanyId = resp[q].contact.contactCompanyId

\* C12: no step of a create-or-update call removes a Company row or changes
\* its name, or its website or address once that is non-null.
C12_CompanyValuesKept ==
  [][\A c \in companies :
       \E d \in companies' :
         /\ d.id = c.id
         /\ d.companyHQId = c.companyHQId
         /\ d.companyName = c.companyName
         /\ c.website # Null => d.website = c.website
         /\ c.address # Null => d.address = c.address]_vars

\* process p of universal-create leaves the company stage in this step,
\* having resolved the name to a stored Company row
ResolvesExistingCompany(p) ==
  /\ req[p].op = "universal"
  /\ pc[p] \in {"uc_fetchCompany", "uc_updateCompany"}
  /\ pc'[p] = UC_AfterCompany(req[p])

\* C13: when a universal-create call resolves to an existing Company, each
\* fallback field it supplies (address, website) that the stored row lacks is
\* in the stored row once the company stage of the call is over.
C13_FallbackFieldsMerged ==
  [][\A p \in Procs :
       ResolvesExistingCompany(p) =>
         \A d \in companies' :
           d.id = loc'[p].companyId =>
             /\ Truthy(WebsiteUrl(req[p])) => Truthy(d.website)
             /\ Truthy(req[p].address) => Truthy(d.address)]_vars

\* ------------------------------------------------- the fields of a contact
\* concurrent create-or-update calls of one tenant with and without an
\* email, with the first name omitted, null, empty or given, and updates by
\* id of the first name or of the email
FieldWriteRequests ==
  {[NoReq EXCEPT !.op = o, !.crmId = "T1", !.email = e, !.firstName = f] :
     o \in {"post", "universal"},
     e \in {Undef, EmailPlain},
     f \in {Undef, Null, Empty, Word("Al")}}
FieldPutRequests ==
  {[NoReq EXCEPT !.op = "put", !.contactId = 1, !.firstName = fe[1], !.email = fe[2]] :
     fe \in {<<Empty, Undef>>, <<Null, Undef>>, <<Word("Bo"), Undef>>,
             <<Undef, EmailUpper>>}}

NextFields ==
  \E p \in Procs :
    \/ \E r \in FieldWriteRequests : PC_Start(p, r)
    \/ PC_Lookup(p)
    \/ PC_Update(p)
    \/ PC_Create(p)
    \/ \E r \in FieldWriteRequests : UC_Start(p, r)
    \/ UC_Lookup(p)
    \/ UC_Update(p)
    \/ UC_Create(p)
    \/ \E r \in FieldPutRequests : PUT_Start(p, r)
    \/ PUT_Update(p)
    \/ Reply(p)

SpecFields == Init /\ [][NextFields]_vars

\* the contact that the update step of process p writes
UpdatedContactId(p) ==
  IF req[p].op = "put" THEN req[p].contactId ELSE loc[p].existing.id
\* process p takes the contact.update step of its handler
StepsUpdate(p) ==
  Steps(p, "pc_update") \/ Steps(p, "uc_update") \/ Steps(p, "put_update")

\* C14: when a call updates an existing Contact, each field it supplies (any
\* value but undefined, null and '' included) is the stored value after the
\* update, and each field it omits keeps its stored value.
C14_SuppliedFieldsOverwrite ==
  [][\A p \in Procs :
       StepsUpdate(p) =>
         \A c \in ContactById(UpdatedContactId(p)) :
           \A d \in ContactById(UpdatedContactId(p))' :
             /\ d.firstName = IF req[p].firstName # Undef
                              THEN req[p].firstName ELSE c.firstName
             /\ d.lastName = IF req[p].lastName # Undef
                             THEN req[p].lastName ELSE c.lastName]_vars

\* C18: in every reachable state each stored non-null Contact email equals
\* its own trim+lowercase normalization.
C18_StoredEmailNormalized ==
  \A c \in contacts :
    c.email # Null => (c.email.t = "string" /\ c.email.s = NormalizeEmail(c.email.s))

\* a create-or-update call that carries no email
IsNoEmailCall(r) == IsCreateOrUpdate(r) /\ ~Truthy(r.email)

\* C19: a create-or-update call without an email never looks for or matches
\* an existing Contact, and its create step adds exactly one Contact row
\* with a fresh id and answers 200; no other step of the call changes the
\* Contact rows.
C19_NoEmailAlwaysCreates ==
  [][\A p \in Procs :
       (IsNoEmailCall(req'[p]) /\ pc'[p] # pc[p]) =>
         /\ pc'[p] \notin {"pc_lookup", "uc_lookup", "pc_update", "uc_update"}
         /\ loc'[p].existing = NoContact
         /\ IF pc[p] \in {"pc_create", "uc_create"}
            THEN /\ \E d \in contacts' :
                      /\ d \notin contacts
                      /\ \A c \in contacts : c.id # d.id
                      /\ d.email = Null
                      /\ contacts' = contacts \cup {d}
                 /\ resp'[p].status = 200
            ELSE contacts' = contacts]_vars

\* C19 witness: two calls without an email and with the same first name have
\* completed, and two Contact rows that differ in their id alone are stored
C19_Witness ==
  /\ Quiescent
  /\ \E c, d \in contacts :
       /\ c.id # d.id
       /\ c.email = Null /\ d.email = Null
       /\ c.firstName = Word("Al") /\ d.firstName = Word("Al")
       /\ [c EXCEPT !.id = d.id] = d

\* ------------------------------------------------- the same call twice
\* a create-or-update call with an email, and, once it has answered, the
\* same call again: process 1 sends the call, process 2 repeats it
TwiceRequests ==
  {[NoReq EXCEPT !.op = o, !.crmId = "T1", !.email = e, !.firstName = f,
                 !.companyName = n, !.pipeline = pr[1], !.stage = pr[2]] :
     o \in {"post", "universal"},
     e \in {EmailPlain, EmailUpper, EmailPadded},
     f \in {Undef, Word("Al")},
     n \in {Undef, NamePadded},
     pr \in {<<Undef, Undef>>, <<Prospect, Interest>>}}

NextTwice ==
  \/ \E r \in TwiceRequests : PC_Start(1, r)
  \/ \E r \in TwiceRequests : UC_Start(1, r)
  \/ pc[1] = "done" /\ PC_Start(2, req[1])
  \/ pc[1] = "done" /\ UC_Start(2, req[1])
  \/ \E p \in Procs :
       \/ PC_FindCompanies(p)
       \/ PC_FetchCompany(p)
       \/ PC_CreateCompany(p)
       \/ PC_Lookup(p)
       \/ PC_Update(p)
       \/ PC_Upsert(p)
       \/ PC_Refetch(p)
       \/ PC_Create(p)
       \/ UC_FindCompanies(p)
       \/ UC_FetchCompany(p)
       \/ UC_CreateCompany(p)
       \/ UC_Lookup(p)
       \/ UC_Update(p)
       \/ UC_Upsert(p)
       \/ UC_Refetch(p)
       \/ UC_Create(p)

SpecTwice == Init /\ [][NextTwice]_vars

\* C15: once a create-or-update call with an email has answered, the same
\* call sent again adds, removes and changes no Contact, Company or Pipeline
\* row: the state after two calls is the state after one.
C15_SecondCallChangesNothing ==
  [][pc[1] = "done" => UNCHANGED <<contacts, companies, pipelines>>]_vars

\* ------------------------------------------- pipelines and their contacts
\* C16: in every reachable state every Pipeline row references a stored
\* Contact, whatever the interleaving of deletes with pipeline writes and
\* trigger conversions; deleting a Contact deletes its Pipeline row.
C16_NoPipelineWithoutContact ==
  \A r \in pipelines : ContactById(r.contactId) # {}

\* C16 witness: Pipeline rows have been stored, and a contact was deleted
\* after an update by id had read its pipeline and before that update wrote
\* it; the delete answered 200, the write failed, and the contact has no
\* Pipeline row
C16_Witness ==
  \E p, q \in Procs :
    /\ pc[p] = "done" /\ req[p].op = "delete" /\ resp[p].status = 200
    /\ pc[q] = "done" /\ req[q].op = "put" /\ resp[q].status = 500
    /\ req[q].contactId = req[p].contactId
    /\ loc[q].newPipeline # Undef
    /\ nextPipelineId > 1
    /\ ContactById(req[p].contactId) = {}
    /\ PipelinesOf(req[p].contactId) = {}

\* ------------------------------------------------ stages and their pipeline
\* C17: in every reachable state each stored Pipeline row with a stage has a
\* stage of the stage list of its pipeline type; a write that proposes a
\* pair outside the lists leaves the stored row as it was.
C17_StoredStageIsValid ==
  \A r \in pipelines :
    r.stage # Null => IsValidStageForPipeline(r.stage, r.pipeline)

\* ------------------------------------------------------ an unknown tenant
\* C20: a create-or-update call whose tenant id names no tenant answers 404
\* in its first step and runs no later stage: no step of it adds, removes or
\* changes a Company, Contact or Pipeline row.
C20_UnknownTenantNotFound ==
  [][\A p \in Procs :
       ( /\ IsCreateOrUpdate(req'[p])
         /\ req'[p].crmId # "" /\ req'[p].crmId \notin Tenants
         /\ pc'[p] # pc[p] )
       => /\ pc'[p] = "done"
          /\ resp'[p].status = 404
          /\ UNCHANGED store]_vars

\* C20 witness: a call for the unknown tenant has answered 404 while another
\* tenant's contact of the same email is stored, and no row carries the
\* unknown tenant
C20_Witness ==
  \E p \in Procs :
    /\ pc[p] = "done"
    /\ IsCreateOrUpdate(req[p]) /\ req[p].crmId = UnknownTenant
    /\ resp[p].status = 404
    /\ \E c \in contacts : NormalizeEmail(c.email.s) = NormalizeEmail(req[p].email.s)
    /\ \A c \in contacts : c.crmId # UnknownTenant

\* ----------------------------------------------- an id that names no contact
\* C21: an update or delete by an id that matches no Contact answers 404 in
\* its first step: it changes no Contact, Company or Pipeline row, creates
\* no Pipeline row for the id and never reaches trigger evaluation.
C21_MissingContactNotFound ==
  [][\A p \in Procs :
       ( /\ req'[p].op \in {"put", "delete"}
         /\ pc[p] = "idle" /\ pc'[p] # "idle"
         /\ \A c \in contacts : c.id # req'[p].contactId )
       => /\ pc'[p] = "done"
          /\ resp'[p].status = 404
          /\ loc'[p].newPipeline = Undef
          /\ UNCHANGED store]_vars

\* C21 witness: contact 1 was created and deleted and a later contact is
\* stored; an update by id of contact 1 that proposed the triggering pair
\* has answered 404 and contact 1 has no Pipeline row
C21_Witness ==
  \E p \in Procs :
    /\ pc[p] = "done"
    /\ IsTriggerRequest(req[p]) /\ req[p].contactId = 1
    /\ resp[p].status = 404
    /\ contacts # {}
    /\ \A c \in contacts : c.id # 1
    /\ PipelinesOf(1) = {}

\* ------------------------------------------------- a stage without pipeline
\* an update by id that supplies the stage 'contract-signed' and no pipeline
IsStageOnlyTrigger(r) ==
  r.op = "put" /\ r.pipeline = Undef /\ r.stage = ContractSigned

\* C23: an update by id that supplies only the stage 'contract-signed' is
\* evaluated on the pair merged with the contact's current Pipeline row: for
\* a contact in the prospect pipeline, or with no Pipeline row, it goes to
\* the conversion, which leaves the contact at (client, kickoff) and answers
\* converted: true.
C23_StageOnlyMergedPairTriggers ==
  [][\A p \in Procs :
       IsStageOnlyTrigger(req[p]) =>
         /\ ( /\ Steps(p, "put_current")
              /\ \A r \in PipelinesOf(req[p].contactId) : r.pipeline = Prospect )
            => pc'[p] = "put_convert"
         /\ (Steps(p, "put_convert") /\ ContactById(req[p].contactId) # {}) =>
              PairsOf(req[p].contactId)' = {<<Client, Kickoff>>}
         /\ (pc[p] = "put_converted" /\ Answers(p) /\ resp'[p].status = 200) =>
              resp'[p].converted]_vars

\* C23 witness: an update by id with the stage alone has converted a contact
\* that had no Pipeline row (the conversion stored the first row ever)
C23_Witness ==
  \E p \in Procs :
    /\ pc[p] = "done"
    /\ IsStageOnlyTrigger(req[p])
    /\ resp[p].status = 200 /\ resp[p].converted
    /\ nextPipelineId = 2
    /\ PairsOf(req[p].contactId) = {<<Client, Kickoff>>}

\* C26: in an update by id for which no trigger fired, the pair that the
\* pipeline upsert stores is the pair that was evaluated against the trigger
\* rules, whatever the current row and the supplied values.
C26_PersistedIsEvaluated ==
  [][\A p \in Procs :
       ( /\ req[p].op = "put"
         /\ Steps(p, "put_upsert")
         /\ ~CheckPipelineTriggers(loc[p].newPipeline, loc[p].newStage)
         /\ ContactById(req[p].contactId) # {} )
       => PairsOf(req[p].contactId)' = {<<loc[p].newPipeline, loc[p].newStage>>}]_vars

\* C29: the output pair (client, kickoff) of the trigger rule matches no
\* rule, the rule's input pair and output pair are valid stages of their
\* pipelines, and an update by id runs at most one conversion: after the
\* conversion the call answers or goes to the plain upsert, never back to
\* trigger evaluation, and the row the conversion stored matches no rule.
C29_ConversionsDoNotChain ==
  /\ [](/\ ~CheckPipelineTriggers(Client, Kickoff)
        /\ IsValidStageForPipeline(ContractSigned, Prospect)
        /\ IsValidStageForPipeline(Kickoff, Client))
  /\ [][\A p \in Procs :
          /\ Steps(p, "put_convert") =>
               /\ pc'[p] \in {"put_converted", "done"}
               /\ \A r \in PipelinesOf(req[p].contactId)' :
                    /\ ~CheckPipelineTriggers(r.pipeline, r.stage)
                    /\ IsValidStageForPipeline(r.stage, r.pipeline)
          /\ Steps(p, "put_converted") => pc'[p] \in {"put_upsert", "done"}]_vars

\* C29 witness: a conversion has answered, the contact is at (client,
\* kickoff), and a second update by id that proposed the triggering pair for
\* it has run its conversion too, each call once
C29_Witness ==
  \E p, q \in Procs :
    /\ p # q
    /\ pc[p] = "done" /\ resp[p].converted
    /\ pc[q] = "put_converted" /\ IsTriggerRequest(req[q])
    /\ req[p].contactId = req[q].contactId
    /\ PairsOf(req[p].contactId) = {<<Client, Kickoff>>}

\* ------------------------------------------- the stages of create-or-update
\* one caller at a time sends create-or-update calls with and without an
\* email, a company name, a pipeline and a stage
StageRequests ==
  {[NoReq EXCEPT !.op = o, !.crmId = "T1", !.email = e, !.firstName = Word("Al"),
                 !.companyName = n, !.pipeline = pr[1], !.stage = pr[2]] :
     o \in {"post", "universal"},
     e \in {Undef, EmailPlain},
     n \in {Undef, NamePadded},
     pr \in {<<Undef, Undef>>, <<Prospect, Interest>>, <<Prospect, Undef>>,
             <<Undef, Interest>>}}

NextStage ==
  \/ \E r \in StageRequests : PC_Start(1, r)
  \/ PC_FindCompanies(1)
  \/ PC_FetchCompany(1)
  \/ PC_CreateCompany(1)
  \/ PC_Lookup(1)
  \/ PC_Update(1)
  \/ PC_Upsert(1)
  \/ PC_Refetch(1)
  \/ PC_Create(1)
  \/ \E r \in StageRequests : UC_Start(1, r)
  \/ UC_FindCompanies(1)
  \/ UC_FetchCompany(1)
  \/ UC_UpdateCompany(1)
  \/ UC_CreateCompany(1)
  \/ UC_Lookup(1)
  \/ UC_Update(1)
  \/ UC_Upsert(1)
  \/ UC_Refetch(1)
  \/ UC_Create(1)
  \/ Reply(1)

SpecStage == Init /\ [][NextStage]_vars

\* C22: a create-or-update call that answers success has made every stage it
\* was asked for take effect: the contact it returns is stored, it references
\* a Company of the given name when a company name was given, and it has a
\* Pipeline row when a pipeline or a stage (or both) was given.
C22_SuccessMeansAllStagesDone ==
  \A p \in Procs :
    (pc[p] = "done" /\ IsCreateOrUpdate(req[p]) /\ resp[p].status = 200) =>
      /\ resp[p].contact \in contacts
      /\ Truthy(req[p].companyName) =>
           \E k \in MatchingCompanies(req[p].crmId, req[p].companyName) :
             resp[p].contact.contactCompanyId = k.id
      /\ (req[p].pipeline # Undef \/ req[p].stage # Undef) =>
           PipelinesOf(resp[p].contact.id) # {}

\* ------------------------------------------------ what a conversion leaves
\* the object convertProspectToClient returns, the only account of the
\* conversion the service makes besides its console.log line; no model of the
\* schema stores it and applyPipelineTriggers passes on its contact alone
ConversionResult(contact) ==
  [converted |-> TRUE,
   from |-> [pipeline |-> Prospect, stage |-> ContractSigned],
   to |-> [pipeline |-> Client, stage |-> Kickoff],
   contact |-> contact]

\* C24: each time the trigger rule fires, the conversion produces a transition
\* record that carries the contact, the state the contact was in before the
\* write, the state (client, kickoff) and a timestamp.
C24_ConversionIsRecorded ==
  [][\A p \in Procs :
       (Steps(p, "put_convert") /\ pc'[p] = "put_converted") =>
         LET cid == req[p].contactId
             rec == ConversionResult(CHOOSE c \in ContactById(cid) : TRUE)
         IN /\ rec.contact.id = cid
            /\ <<rec.to.pipeline, rec.to.stage>> \in PairsOf(cid)'
            /\ PairsOf(cid) # {} => <<rec.from.pipeline, rec.from.stage>> \in PairsOf(cid)
            /\ "timestamp" \in DOMAIN rec]_vars

\* ------------------------------- POST /api/contacts/cleanup-duplicates
\* faulty variant of the grouping key, for the sensitivity of C25: the
\* stored email as it is
EmailGroupKeyRaw(contact) == contact.email.s

\* the key of emailGroups: contact.email.toLowerCase().trim()
EmailGroupKey(contact) == ToLowerCase(Trim(contact.email.s))

\* contact.findMany({ where: { crmId, email: { not: null } } }), and of those
\* the rows the forEach groups (`if (contact.email)`)
CleanupFound(crmId) ==
  {c \in contacts : c.crmId = crmId /\ c.email # Null /\ Truthy(c.email)}
\* emailGroups[key]: the found rows of one key; createdAt ascending is id
\* ascending, ids being given in the order of creation
EmailGroup(found, c) == {d \in found : EmailGroupKey(d) = EmailGroupKey(c)}
\* group[0], the oldest row of a group
KeepContact(group) == CHOOSE c \in group : \A d \in group : c.id <= d.id
\* group[1..]: the rows the loop deletes
CleanupDuplicates(found) ==
  {c \in found : c # KeepContact(EmailGroup(found, c))}
\* the order of the deletes: Object.entries gives the groups in the order
\* their first row was found, each group oldest first
RECURSIVE CleanupOrder(_, _)
CleanupOrder(found, rest) ==
  IF rest = {} THEN <<>>
  ELSE LET first(c) == KeepContact(EmailGroup(found, c)).id
           c == CHOOSE x \in rest : \A y \in rest :
                  \/ first(x) < first(y)
                  \/ first(x) = first(y) /\ x.id <= y.id
       IN <<c.id>> \o CleanupOrder(found, rest \ {c})

\* res.json({ success: true, deleted: deletedCount, kept: keptIds.length })
CleanupRespond(p, l) ==
  Respond(p, [NoResp EXCEPT !.status = 200, !.deleted = l.deletedCount,
                            !.kept = Cardinality(l.keptIds)])

\* the request arrives: the findMany and the grouping, up to the first delete
CL_Start(p, r) ==
  /\ pc[p] = "idle"
  /\ r.op = "cleanup"
  /\ req' = [req EXCEPT ![p] = r]
  /\ IF r.crmId = ""
     THEN /\ Respond(p, [NoResp EXCEPT !.status = 400])
          /\ UNCHANGED loc
     ELSE LET found == CleanupFound(r.crmId)
              l == [NoLoc EXCEPT
                      !.toDelete = CleanupOrder(found, CleanupDuplicates(found)),
                      !.keptIds = {KeepContact(EmailGroup(found, c)).id : c \in found}]
          IN /\ SetLoc(p, l)
             /\ IF l.toDelete = <<>>
                THEN CleanupRespond(p, l)
                ELSE Goto(p, "cl_delete") /\ UNCHANGED resp
  /\ UNCHANGED store

\* one prisma.contact.delete({ where: { id: group[i].id } }) and
\* deletedCount++; the response after the last one
CL_Delete(p) ==
  /\ pc[p] = "cl_delete"
  /\ LET cid == Head(loc[p].toDelete)
         l == [loc[p] EXCEPT !.toDelete = Tail(@), !.deletedCount = @ + 1]
     IN IF ContactById(cid) = {}
        THEN /\ Throw(p)
             /\ UNCHANGED <<store, loc>>
        ELSE /\ contacts' = contacts \ ContactById(cid)
             /\ pipelines' = PipelinesAfterDelete(cid)
             /\ SetLoc(p, l)
             /\ IF l.toDelete = <<>>
                THEN CleanupRespond(p, l)
                ELSE UNCHANGED <<pc, resp>>
             /\ UNCHANGED <<companies, nextContactId, nextCompanyId, nextPipelineId>>
  /\ UNCHANGED req

\* one caller at a time: creates with and without an email in two tenants
\* (an email in another case is stored as a second contact), updates by id
\* that store an email as sent, and cleanups
CleanupCreateRequests ==
  {[NoReq EXCEPT !.op = "post", !.crmId = t, !.email = e,
                 !.pipeline = pr[1], !.stage = pr[2]] :
     t \in Tenants,
     e \in {Undef, EmailPlain, EmailUpper},
     pr \in {<<Undef, Undef>>, <<Prospect, Interest>>}}
CleanupPutRequests ==
  {[NoReq EXCEPT !.op = "put", !.contactId = i, !.email = e] :
     i \in 1..2, e \in {EmailUpper, EmailPadded, Empty}}
CleanupRequests ==
  {[NoReq EXCEPT !.op = "cleanup", !.crmId = t] : t \in Tenants \cup {""}}

NextCleanup ==
  \/ \E r \in CleanupCreateRequests : PC_Start(1, r)
  \/ PC_Lookup(1)
  \/ PC_Update(1)
  \/ PC_Upsert(1)
  \/ PC_Refetch(1)
  \/ PC_Create(1)
  \/ \E r \in CleanupPutRequests : PUT_Start(1, r)
  \/ PUT_Update(1)
  \/ \E r \in CleanupRequests : CL_Start(1, r)
  \/ CL_Delete(1)
  \/ Reply(1)

SpecCleanup == Init /\ [][NextCleanup]_vars

\* the contacts of a tenant that have an email address
WithEmail(crmId) == {c \in contacts : c.crmId = crmId /\ Truthy(c.email)}

\* C25: with no concurrent write, once a cleanup of a tenant has answered,
\* the tenant has exactly one Contact per trim+lowercase email, 'kept' is the
\* number of these emails and 'deleted' the number of rows removed; each row
\* the cleanup deletes is a contact of the tenant with an email whose older
\* twin stays; every other Contact, of the tenant or not, with or without an
\* email, every Company and every other contact's Pipeline row is unchanged.
C25_CleanupKeepsOldestPerEmail ==
  /\ [](\A p \in Procs :
          (pc[p] = "done" /\ req[p].op = "cleanup" /\ resp[p].status = 200) =>
            /\ \A c, d \in WithEmail(req[p].crmId) :
                 NormalizeEmail(c.email.s) = NormalizeEmail(d.email.s) => c = d
            /\ resp[p].kept =
                 Cardinality({NormalizeEmail(c.email.s) : c \in WithEmail(req[p].crmId)})
            /\ resp[p].kept = Cardinality(WithEmail(req[p].crmId))
            /\ resp[p].deleted = loc[p].deletedCount)
  /\ [][\A p \in Procs :
          /\ (pc[p] = "idle" /\ req'[p].op = "cleanup") => UNCHANGED store
          /\ pc[p] = "cl_delete" =>
               /\ \E c \in WithEmail(req[p].crmId) :
                    /\ contacts' = contacts \ {c}
                    /\ pipelines' = pipelines \ PipelinesOf(c.id)
                    /\ \E d \in contacts' : SameNormalizedEmail(c, d) /\ d.id < c.id
                    /\ loc'[p].deletedCount = loc[p].deletedCount + 1
               /\ UNCHANGED <<companies, nextContactId, nextCompanyId>>]_vars

\* C25 witness: a cleanup of a tenant has deleted two contacts and kept one:
\* three contacts had the same trim+lowercase email, stored in two spellings
C25_Witness ==
  \E p \in Procs :
    /\ pc[p] = "done" /\ req[p].op = "cleanup" /\ resp[p].status = 200
    /\ resp[p].deleted = 2 /\ resp[p].kept = 1
    /\ nextContactId = 4
    /\ \E c \in contacts : c.id = 1 /\ c.crmId = req[p].crmId /\ c.email = EmailUpper

\* ----------------------------------------- two calls, two different fields
\* concurrent create-or-update calls for one email: one supplies no name,
\* one a first name only, one a last name only
MergeRequests ==
  {[NoReq EXCEPT !.op = o, !.crmId = "T1", !.email = EmailPlain,
                 !.firstName = n[1], !.lastName = n[2]] :
     o \in {"post", "universal"},
     n \in {<<Undef, Undef>>, <<Word("Al"), Undef>>, <<Undef, Word("Lee")>>}}

NextMerge ==
  \E p \in Procs :
    \/ \E r \in MergeRequests : PC_Start(p, r)
    \/ PC_Lookup(p)
    \/ PC_Update(p)
    \/ PC_Create(p)
    \/ \E r \in MergeRequests : UC_Start(p, r)
    \/ UC_Lookup(p)
    \/ UC_Update(p)
    \/ UC_Create(p)
    \/ Reply(p)

SpecMerge == Init /\ [][NextMerge]_vars

\* C27: when two concurrent create-or-update calls have matched the same
\* Contact, one supplying only a first name and the other only a last name,
\* and both have answered success, the Contact has both names.
C27_BothUpdatesPresent ==
  \A p, q \in Procs :
    ( /\ pc[p] = "done" /\ pc[q] = "done"
      /\ IsCreateOrUpdate(req[p]) /\ IsCreateOrUpdate(req[q])
      /\ resp[p].status = 200 /\ resp[q].status = 200
      /\ loc[p].existing # NoContact
      /\ loc[q].existing.id = loc[p].existing.id
      /\ req[p].firstName = Word("Al") /\ req[p].lastName = Undef
      /\ req[q].firstName = Undef /\ req[q].lastName = Word("Lee") )
    => \E c \in ContactById(loc[p].existing.id) :
         c.firstName = Word("Al") /\ c.lastName = Word("Lee")

\* ------------------------------------------- company ids sent by the caller
\* one caller at a time: calls that name a company in either tenant, calls
\* that send the id of a company (contactCompanyId), and updates by id that
\* send one
CompanyRefRequests ==
  {[NoReq EXCEPT !.op = "universal", !.crmId = t, !.email = e, !.companyName = NamePadded] :
     t \in Tenants, e \in {Undef, EmailPlain}}
  \cup
  {[NoReq EXCEPT !.op = o, !.crmId = t, !.email = e, !.contactCompanyId = k] :
     o \in {"post", "universal"}, t \in Tenants, e \in {Undef, EmailPlain}, k \in 0..1}
CompanyRefPutRequests ==
  {[NoReq EXCEPT !.op = "put", !.contactId = i, !.contactCompanyId = 1] : i \in 1..2}

NextCompanyRef ==
  \/ \E r \in CompanyRefRequests : PC_Start(1, r)
  \/ PC_Lookup(1)
  \/ PC_Update(1)
  \/ PC_Create(1)
  \/ \E r \in CompanyRefRequests : UC_Start(1, r)
  \/ UC_FindCompanies(1)
  \/ UC_FetchCompany(1)
  \/ UC_UpdateCompany(1)
  \/ UC_CreateCompany(1)
  \/ UC_Lookup(1)
  \/ UC_Update(1)
  \/ UC_Create(1)
  \/ \E r \in CompanyRefPutRequests : PUT_Start(1, r)
  \/ PUT_Update(1)
  \/ Reply(1)

SpecCompanyRef == Init /\ [][NextCompanyRef]_vars

\* C28: the company reference of a Contact, when set, is the id of a Company
\* of the Contact's own tenant, whether it came from a company name or from a
\* contactCompanyId the caller sent to create, create-or-update or update by
\* id.
C28_CompanyRefWithinTenant ==
  \A c \in contacts :
    c.contactCompanyId # 0 =>
      \E k \in CompanyById(c.contactCompanyId) : k.companyHQId = c.crmId

\* ---------------------------------------------- what a matching call keeps
\* process p takes a step of a create-or-update call after its lookup matched
\* a contact
StepsAfterMatch(p) ==
  /\ pc[p] \in {"pc_update", "pc_upsert", "pc_refetch",
                "uc_update", "uc_upsert", "uc_refetch"}
  /\ pc'[p] # pc[p]

\* C30: a create-or-update call that matched an existing Contact creates no
\* Contact row, and in each of its steps every other Contact is unchanged and
\* the matched Contact keeps its id, its tenant and its stored email.
C30_MatchKeepsIdentity ==
  [][\A p \in Procs :
       StepsAfterMatch(p) =>
         /\ nextContactId' = nextContactId
         /\ {c.id : c \in contacts'} = {c.id : c \in contacts}
         /\ \A c \in contacts : c.id # loc[p].existing.id => c \in contacts'
         /\ \A c \in contacts, d \in contacts' :
              (c.id = loc[p].existing.id /\ d.id = c.id) =>
                d.crmId = c.crmId /\ d.email = c.email]_vars

\* C30 witness: a universal-create call sent 'J@X', matched the contact
\* stored as 'j@x' and has answered success with that contact, the email
\* still 'j@x', and no second contact was ever created
C30_Witness ==
  \E p \in Procs :
    /\ pc[p] = "done" /\ req[p].op = "universal" /\ resp[p].status = 200
    /\ req[p].email = EmailUpper
    /\ loc[p].existing # NoContact
    /\ resp[p].contact.id = loc[p].existing.id
    /\ resp[p].contact.email = EmailPlain
    /\ resp[p].contact \in contacts
    /\ nextContactId = 2

====
